---- MODULE Spec2Model ----
(***************************************************************************)
(* Model of crates/server/python/diffusion_engine.py: the DiffusionEngine  *)
(* model lifecycle (load_model / unload_model / is_loaded) and the infill  *)
(* generator (block scheduling, _denoise_step, _force_unmask, progress     *)
(* records).  One stream is in flight at a time; a Pull is one next() on   *)
(* the generator and runs the generator body from its current suspension   *)
(* point to the next yield, to its end, or to the exception that ends it.  *)
(*                                                                         *)
(* The token predictor (self.model) and torch.multinomial are external:    *)
(* what they return is chosen nondeterministically, for the positions      *)
(* whose logits the code reads.  A distribution is a function from the     *)
(* vocabulary to probability mass in units of 1/Units.                     *)
(***************************************************************************)
EXTENDS Integers, Sequences, FiniteSets, TLC

\* ---------------------------------------------------------------- bounds
MaxMask  == 3      \* mask_count_ ranges over 0..MaxMask
MaxSteps == 2      \* steps_per_block_ ranges over 0..MaxSteps
MaxBlock == 2      \* block_length_ ranges over 0..MaxBlock
MaxTok   == 1      \* ordinary token ids are 0..MaxTok
Units    == 2      \* probability mass is counted in units of 1/Units
MaxPulls == 4      \* next() on an ended generator is followed while pulls < MaxPulls

\* ------------------------------------------------------ program constants
MASK_TOKEN_ID == 151669

None == "None"

Paths == {"A", "B"}

\* Ordinary vocabulary plus the mask token, which is an entry of the
\* tokenizer vocabulary and therefore a column of the logits.
Vocab == (0..MaxTok) \cup {MASK_TOKEN_ID}

\* Text is a sequence of pieces; piece number t+1 is the text of token t.
Pieces == <<"a", "b", "c", "d">>

\* infill is called with a prefix and a suffix, generate with an empty
\* prompt (and, by its definition, an empty suffix).
PrefixTexts == {<<"a">>}
SuffixTexts == {<<"b">>}
Prompts     == {<< >>}

Temperatures == {0, 1}

\* dynamic_threshold in units of 1/Units; Units + 1 is above every
\* confidence a distribution can have.
Thresholds == 1..(Units + 1)

\* ------------------------------------------------------------- tokenizer
TokenOf(piece) == CHOOSE t \in 0..(Len(Pieces) - 1) : Pieces[t + 1] = piece

\* tokenizer.encode(text, add_special_tokens=False)
Encode(text) == [i \in 1..Len(text) |-> TokenOf(text[i])]

IsOrdinary(t) == t # MASK_TOKEN_ID

\* tokenizer.decode(ids, skip_special_tokens=True): special tokens (the mask
\* token) produce no text.
RECURSIVE Decode(_)
Decode(ids) ==
    IF ids = << >> THEN << >>
    ELSE IF IsOrdinary(Head(ids))
         THEN <<Pieces[Head(ids) + 1]>> \o Decode(Tail(ids))
         ELSE Decode(Tail(ids))

\* --------------------------------------------------------- distributions
RECURSIVE SumOver(_, _)
SumOver(d, S) ==
    IF S = {} THEN 0
    ELSE LET v == CHOOSE x \in S : TRUE IN d[v] + SumOver(d, S \ {v})

\* softmax(logits) of one position.
Dists == {d \in [Vocab -> 0..Units] : SumOver(d, Vocab) = Units}

\* F.softmax(masked_logits, dim=-1).max(dim=-1).values
Confidence(d) == CHOOSE m \in 0..Units :
                    (\E v \in Vocab : d[v] = m) /\ (\A v \in Vocab : d[v] <= m)

\* argmax(dim=-1): the first index holding the maximal value.
Argmax(d) ==
    LET m == Confidence(d)
    IN  CHOOSE v \in Vocab :
            d[v] = m /\ \A w \in Vocab : d[w] = m => v <= w

\* What the step can obtain for one masked position: the distribution and
\* the candidate token.  temperature > 0: a draw of torch.multinomial from
\* softmax(logits / temperature), which has the support of softmax(logits);
\* otherwise the argmax.
CandidatesSampled == {c \in Dists \X Vocab : c[1][c[2]] > 0}

CandidatesArgmax == {c \in Dists \X Vocab : c[2] = Argmax(c[1])}

Candidates(temperature_) ==
    IF temperature_ > 0 THEN CandidatesSampled ELSE CandidatesArgmax

\* ------------------------------------------------ infill: pure helpers
\* Positions are the 0-based indices of the code; At reads one of them.
At(s, i) == s[i + 1]

\* s[lo:hi] for 0 <= lo, 0 <= hi
Slice(s, lo, hi) == [k \in 1..(IF hi > lo THEN hi - lo ELSE 0) |-> s[lo + k]]

\* [MASK_TOKEN_ID] * mask_count
MaskIds(mask_count_) == [k \in 1..mask_count_ |-> MASK_TOKEN_ID]

\* (s[lo:hi] == MASK_TOKEN_ID).nonzero(): indices relative to lo.
MaskedPositions(s, lo, hi) ==
    {r \in 0..(hi - lo - 1) : At(s, lo + r) = MASK_TOKEN_ID}

\* Mutant: floor instead of ceiling division.
NumBlocks_Floor(mask_count_, block_length_) == mask_count_ \div block_length_

NumBlocks(mask_count_, block_length_) ==
    (mask_count_ + block_length_ - 1) \div block_length_

\* Mutant: one block too many in the step total.
TotalSteps_OffByOne(num_blocks_, steps_per_block_) ==
    (num_blocks_ + 1) * steps_per_block_

TotalSteps(num_blocks_, steps_per_block_) == num_blocks_ * steps_per_block_

\* Mutant: every step acts on the first block.
BlockStart_FirstBlock(mask_start_, block_idx_, block_length_) == mask_start_

BlockStart(mask_start_, block_idx_, block_length_) ==
    mask_start_ + block_idx_ * block_length_

BlockEnd(block_start, block_length_, mask_end_) ==
    IF block_start + block_length_ < mask_end_
    THEN block_start + block_length_
    ELSE mask_end_

\* Mutant: the block offset is forgotten.
AbsolutePositions_NoOffset(block_start, rel) == rel

\* block_start + masked_positions[high_confidence]
AbsolutePositions(block_start, rel) == {block_start + r : r \in rel}

\* Mutant: the drawn token is taken whatever the temperature.
Sampled_AlwaysDraw(temperature_, out) == out[2]

\* The candidate token of one masked position; out = <<distribution, draw>>.
Sampled(temperature_, out) ==
    IF temperature_ > 0 THEN out[2] ELSE Argmax(out[1])

\* Mutant: a confidence equal to the threshold does not qualify.
HighConfidence_Strict(masked_positions, dynamic_threshold_, out) ==
    {r \in masked_positions : Confidence(out[r][1]) > dynamic_threshold_}

HighConfidence(masked_positions, dynamic_threshold_, out) ==
    {r \in masked_positions : Confidence(out[r][1]) >= dynamic_threshold_}

\* Mutant: a block with no masked position is not sent to the predictor.
DenoiseStepQueries_SkipsResolved(s, block_start, block_end) ==
    IF MaskedPositions(s, block_start, block_end) = {} THEN 0 ELSE 1

\* Forward passes of one _denoise_step call: self.model(input_ids=seq) is
\* its first statement, ahead of the masked_positions test.
DenoiseStepQueries(s, block_start, block_end) == 1

\* _denoise_step after the forward pass; out gives, for each masked position
\* of the block (relative index), the predictor's distribution and the draw.
DenoiseStep(s, block_start, block_end, temperature_, dynamic_threshold_, out) ==
    LET masked_positions == MaskedPositions(s, block_start, block_end)
        high_confidence  == HighConfidence(masked_positions, dynamic_threshold_, out)
        absolute_positions == AbsolutePositions(block_start, high_confidence)
        RelOf(i) == CHOOSE r \in high_confidence :
                        AbsolutePositions(block_start, {r}) = {i}
    IN  IF masked_positions = {} THEN s
        ELSE [k \in 1..Len(s) |->
                IF (k - 1) \in absolute_positions
                THEN Sampled(temperature_, out[RelOf(k - 1)])
                ELSE s[k]]

\* Mutant: the force-unmask pass takes every region position.
StillMasked_WholeRegion(s, mask_start_, mask_end_) ==
    0..(mask_end_ - mask_start_ - 1)

StillMasked(s, mask_start_, mask_end_) ==
    MaskedPositions(s, mask_start_, mask_end_)

\* Forward passes of one _force_unmask call: self.model(input_ids=seq) is
\* its first statement, ahead of the still_masked test.
ForceUnmaskQueries(s, mask_start_, mask_end_) == 1

\* _force_unmask after the forward pass; logits gives the distribution of
\* each still-masked position of the region (relative index).
ForceUnmask(s, mask_start_, mask_end_, logits) ==
    LET still_masked == StillMasked(s, mask_start_, mask_end_)
    IN  [k \in 1..Len(s) |->
            IF (k - 1 - mask_start_) \in still_masked
            THEN Argmax(logits[k - 1 - mask_start_])
            ELSE s[k]]

\* ----------------------------------------------------------------- state
VARIABLES
    model, tokenizer, model_path,      \* DiffusionEngine fields
    pc,                                \* where the generator is suspended
    prefix, suffix, mask_count,        \* arguments of the call in flight
    steps_per_block, block_length,
    temperature, dynamic_threshold,
    seq, mask_start, mask_end,         \* generator locals
    num_blocks, total_steps, current_step,
    block_idx, step,
    remaining_mask_positions,
    records,                           \* progress records yielded so far
    queries,                           \* forward passes asked of self.model
    pulls,                             \* next() calls made on the generator
    error                              \* the exception that ended the stream

engine == <<model, tokenizer, model_path>>
frame  == <<seq, mask_start, mask_end, num_blocks, total_steps, current_step,
            block_idx, step, remaining_mask_positions>>
args   == <<prefix, suffix, mask_count, steps_per_block, block_length,
            temperature, dynamic_threshold>>
stream == <<pc, args, records, queries, pulls, error>>
vars   == <<model, tokenizer, model_path, pc, prefix, suffix, mask_count,
            steps_per_block, block_length, temperature, dynamic_threshold,
            seq, mask_start, mask_end,
            num_blocks, total_steps, current_step, block_idx, step,
            remaining_mask_positions, records, queries, pulls, error>>

\* __init__, and no generator created yet.
Init ==
    /\ model = None /\ tokenizer = None /\ model_path = None
    /\ pc = "none"
    /\ prefix = << >> /\ suffix = << >> /\ mask_count = 0
    /\ steps_per_block = 0 /\ block_length = 0
    /\ temperature = 0 /\ dynamic_threshold = 0
    /\ seq = << >> /\ mask_start = 0 /\ mask_end = 0
    /\ num_blocks = 0 /\ total_steps = 0 /\ current_step = 0
    /\ block_idx = 0 /\ step = 0
    /\ remaining_mask_positions = {}
    /\ records = << >> /\ queries = 0 /\ pulls = 0 /\ error = "none"

is_loaded == model # None /\ tokenizer # None

\* Mutant: the assertion is missing.
AssertLoaded_Dropped(m, t) == TRUE

\* Mutant: the assertion tests the tokenizer only.
AssertLoaded_TokenizerOnly(m, t) == t # None

\* assert self.model is not None and self.tokenizer is not None
AssertLoaded(m, t) == m # None /\ t # None

\* Mutant: the step counter is not advanced.
Incremented_Dropped(cs) == cs

\* current_step += 1
Incremented(cs) == cs + 1

\* ------------------------------------------------------------- lifecycle
\* outcome: which of the two from_pretrained calls raises, if any.
LoadOutcomes == {"ok", "tokenizer_raises", "model_raises"}

\* Mutant: the identity test is dropped, every call unloads and loads.
load_model_AlwaysReload(path, outcome) ==
    /\ tokenizer' = IF outcome = "tokenizer_raises" THEN None ELSE path
    /\ model' = IF outcome = "ok" THEN path ELSE None
    /\ model_path' = IF outcome = "ok" THEN path ELSE None
    /\ UNCHANGED <<frame, stream>>

load_model(path, outcome) ==
    /\ IF model # None /\ model_path = path
       THEN UNCHANGED engine
       ELSE \* unload_model() has run; then the two loads in order
            /\ tokenizer' = IF outcome = "tokenizer_raises" THEN None ELSE path
            /\ model' = IF outcome = "ok" THEN path ELSE None
            /\ model_path' = IF outcome = "ok" THEN path ELSE None
    /\ UNCHANGED <<frame, stream>>

unload_model ==
    /\ model' = IF model # None THEN None ELSE model
    /\ tokenizer' = IF tokenizer # None THEN None ELSE tokenizer
    /\ model_path' = None
    /\ UNCHANGED <<frame, stream>>

\* ---------------------------------------------------------------- infill
\* Calling infill() only creates the generator: no line of its body runs
\* before the first next().  The model follows one stream per engine: the
\* call is made once, in any lifecycle state.
\* Mutant: the call itself runs the body up to its first forward pass.
NewStream_Eager(a) ==
    /\ pc = "none"
    /\ pc' = "created"
    /\ prefix' = a[1] /\ suffix' = a[2] /\ mask_count' = a[3]
    /\ steps_per_block' = a[4] /\ block_length' = a[5]
    /\ temperature' = a[6] /\ dynamic_threshold' = a[7]
    /\ seq' = << >> /\ mask_start' = 0 /\ mask_end' = 0
    /\ num_blocks' = 0 /\ total_steps' = 0 /\ current_step' = 0
    /\ block_idx' = 0 /\ step' = 0
    /\ remaining_mask_positions' = {}
    /\ records' = << >> /\ queries' = 1 /\ pulls' = 0 /\ error' = "none"
    /\ UNCHANGED engine

NewStream(a) ==
    /\ pc = "none"
    /\ pc' = "created"
    /\ prefix' = a[1] /\ suffix' = a[2] /\ mask_count' = a[3]
    /\ steps_per_block' = a[4] /\ block_length' = a[5]
    /\ temperature' = a[6] /\ dynamic_threshold' = a[7]
    /\ seq' = << >> /\ mask_start' = 0 /\ mask_end' = 0
    /\ num_blocks' = 0 /\ total_steps' = 0 /\ current_step' = 0
    /\ block_idx' = 0 /\ step' = 0
    /\ remaining_mask_positions' = {}
    /\ records' = << >> /\ queries' = 0 /\ pulls' = 0 /\ error' = "none"
    /\ UNCHANGED engine

infill(prefix_, suffix_, mask_count_, steps_per_block_, block_length_, temperature_, dynamic_threshold_) ==
    NewStream(<<prefix_, suffix_, mask_count_, steps_per_block_,
                block_length_, temperature_, dynamic_threshold_>>)

\* generate(): yield from self.infill(prefix=prompt, suffix="", mask_count=gen_length, ...)
generate(prompt, gen_length, steps_per_block_, block_length_, temperature_, dynamic_threshold_) ==
    NewStream(<<prompt, << >>, gen_length, steps_per_block_, block_length_,
                temperature_, dynamic_threshold_>>)

\* The generator's position and locals after a run of its body.
Goto(p, err, s, cs, idx, st, rem, recs, q) ==
    /\ pc' = p /\ error' = err
    /\ seq' = s /\ current_step' = cs /\ block_idx' = idx /\ step' = st
    /\ remaining_mask_positions' = rem
    /\ records' = recs /\ queries' = q

Region(s, ms, me) == Slice(s, ms, me)

\* A progress record (current_step, total_steps, decoded); the fourth
\* component tells the yield that emitted it: "step" for the yield of the
\* step loop, "final" for the terminal yield.
Record(cs, ts, s, ms, me, site) == <<cs, ts, Decode(Region(s, ms, me)), site>>

RecStep(r)  == r[1]
RecTotal(r) == r[2]
RecText(r)  == r[3]
RecKind(r)  == r[4]

\* One iteration of the inner loop: _denoise_step, current_step += 1,
\* decode, yield.  Calling self.model when it is None raises TypeError;
\* the forward pass itself may raise; decode on a None tokenizer raises
\* AttributeError.
RunStep(s, ms, me, ts, cs, idx, st) ==
    LET block_start == BlockStart(ms, idx, block_length)
        block_end   == BlockEnd(block_start, block_length, me)
        rem         == remaining_mask_positions
    IN  IF model = None
        THEN Goto("failed", "TypeError", s, cs, idx, st, rem, records, queries)
        ELSE \/ Goto("failed", "PredictorError", s, cs, idx, st, rem, records,
                     queries + DenoiseStepQueries(s, block_start, block_end))
             \/ \E out \in [MaskedPositions(s, block_start, block_end)
                               -> Candidates(temperature)] :
                  LET s2 == DenoiseStep(s, block_start, block_end,
                                        temperature,
                                        dynamic_threshold, out)
                      cs2 == Incremented(cs)
                      q2  == queries
                             + DenoiseStepQueries(s, block_start, block_end)
                  IN  IF tokenizer = None
                      THEN Goto("failed", "AttributeError", s2, cs2, idx, st,
                                rem, records, q2)
                      ELSE Goto("yield_step", "none", s2, cs2, idx, st, rem,
                                Append(records,
                                       Record(cs2, ts, s2, ms, me, "step")),
                                q2)

\* After the loops: the remaining-mask test, _force_unmask, the terminal
\* yield, or the end of the generator.
\* Mutant: _force_unmask is called whether or not a mask remains.
AfterLoop_Unguarded(s, ms, me, ts, cs, idx, st) ==
    LET rem == MaskedPositions(s, ms, me)
    IN  IF model = None
        THEN Goto("failed", "TypeError", s, cs, idx, st, rem, records,
                  queries)
        ELSE \/ Goto("failed", "PredictorError", s, cs, idx, st, rem,
                     records, queries + ForceUnmaskQueries(s, ms, me))
             \/ \E logits \in [StillMasked(s, ms, me) -> Dists] :
                  LET s2 == ForceUnmask(s, ms, me, logits)
                  IN  IF tokenizer = None
                      THEN Goto("failed", "AttributeError", s2, cs, idx,
                                st, rem, records,
                                queries + ForceUnmaskQueries(s, ms, me))
                      ELSE Goto("yield_final", "none", s2, cs, idx, st,
                                rem,
                                Append(records,
                                       Record(ts, ts, s2, ms, me, "final")),
                                queries + ForceUnmaskQueries(s, ms, me))

AfterLoop(s, ms, me, ts, cs, idx, st) ==
    LET rem == MaskedPositions(s, ms, me)
    IN  IF Cardinality(rem) > 0
        THEN IF model = None
             THEN Goto("failed", "TypeError", s, cs, idx, st, rem, records,
                       queries)
             ELSE \/ Goto("failed", "PredictorError", s, cs, idx, st, rem,
                          records, queries + ForceUnmaskQueries(s, ms, me))
                  \/ \E logits \in [StillMasked(s, ms, me) -> Dists] :
                       LET s2 == ForceUnmask(s, ms, me, logits)
                       IN  IF tokenizer = None
                           THEN Goto("failed", "AttributeError", s2, cs, idx,
                                     st, rem, records,
                                     queries + ForceUnmaskQueries(s, ms, me))
                           ELSE Goto("yield_final", "none", s2, cs, idx, st,
                                     rem,
                                     Append(records,
                                            Record(ts, ts, s2, ms, me, "final")),
                                     queries + ForceUnmaskQueries(s, ms, me))
        ELSE Goto("done", "none", s, cs, idx, st, rem, records, queries)

\* First next(): the body from its first line to the first yield.
Start ==
    /\ pc = "created"
    /\ IF ~AssertLoaded(model, tokenizer)
       THEN /\ Goto("failed", "AssertionError", seq, current_step, block_idx,
                    step, remaining_mask_positions, records, queries)
            /\ UNCHANGED <<mask_start, mask_end, num_blocks, total_steps>>
       ELSE IF tokenizer = None      \* self.tokenizer.encode on None
       THEN /\ Goto("failed", "AttributeError", seq, current_step, block_idx,
                    step, remaining_mask_positions, records, queries)
            /\ UNCHANGED <<mask_start, mask_end, num_blocks, total_steps>>
       ELSE LET prefix_ids == Encode(prefix)
                suffix_ids == Encode(suffix)
                input_ids  == prefix_ids \o MaskIds(mask_count) \o suffix_ids
                ms == Len(prefix_ids)
                me == ms + mask_count
            IN  /\ mask_start' = ms /\ mask_end' = me
                /\ IF block_length = 0
                   THEN /\ Goto("failed", "ZeroDivisionError", input_ids, 0, 0,
                                0, {}, records, queries)
                        /\ UNCHANGED <<num_blocks, total_steps>>
                   ELSE LET nb == NumBlocks(mask_count, block_length)
                            ts == TotalSteps(nb, steps_per_block)
                        IN  /\ num_blocks' = nb /\ total_steps' = ts
                            /\ IF nb > 0 /\ steps_per_block > 0
                               THEN RunStep(input_ids, ms, me, ts, 0, 0, 0)
                               ELSE AfterLoop(input_ids, ms, me, ts, 0, 0, 0)

\* next() at the yield of the inner loop: the next step of this block, the
\* first step of the next block, or the code after the loops.
Resume ==
    /\ pc = "yield_step"
    /\ UNCHANGED <<mask_start, mask_end, num_blocks, total_steps>>
    /\ IF step + 1 < steps_per_block
       THEN RunStep(seq, mask_start, mask_end, total_steps, current_step,
                    block_idx, step + 1)
       ELSE IF block_idx + 1 < num_blocks
            THEN RunStep(seq, mask_start, mask_end, total_steps, current_step,
                         block_idx + 1, 0)
            ELSE AfterLoop(seq, mask_start, mask_end, total_steps,
                           current_step, block_idx, step)

\* next() at the terminal yield: the generator returns.
Finish ==
    /\ pc = "yield_final"
    /\ UNCHANGED <<mask_start, mask_end, num_blocks, total_steps>>
    /\ Goto("done", "none", seq, current_step, block_idx, step,
            remaining_mask_positions, records, queries)

\* Mutant: next() on an ended generator asks the predictor again.
Exhausted_Retries ==
    /\ pc \in {"done", "failed"}
    /\ pulls < MaxPulls
    /\ UNCHANGED <<mask_start, mask_end, num_blocks, total_steps>>
    /\ Goto(pc, error, seq, current_step, block_idx, step,
            remaining_mask_positions, records, queries + 1)

\* next() on a generator that has returned or raised: StopIteration, no
\* line of the body runs.
Exhausted ==
    /\ pc \in {"done", "failed"}
    /\ pulls < MaxPulls
    /\ UNCHANGED <<mask_start, mask_end, num_blocks, total_steps>>
    /\ Goto(pc, error, seq, current_step, block_idx, step,
            remaining_mask_positions, records, queries)

\* One next() of the caller on the stream in flight.
Pull ==
    /\ pulls' = pulls + 1
    /\ UNCHANGED <<engine, args>>
    /\ (Start \/ Resume \/ Finish \/ Exhausted)

Next ==
    \/ \E path \in Paths, outcome \in LoadOutcomes : load_model(path, outcome)
    \/ unload_model
    \/ \E pre \in PrefixTexts, suf \in SuffixTexts, mc \in 0..MaxMask,
          spb \in 0..MaxSteps, bl \in 0..MaxBlock, temp \in Temperatures,
          thr \in Thresholds :
          infill(pre, suf, mc, spb, bl, temp, thr)
    \/ \E prompt \in Prompts, gen_length \in 0..MaxMask,
          spb \in 0..MaxSteps, bl \in 0..MaxBlock, temp \in Temperatures,
          thr \in Thresholds :
          generate(prompt, gen_length, spb, bl, temp, thr)
    \/ Pull

Spec == Init /\ [][Next]_vars

\* ================================================================ claims
Completed == pc = "done"

ValidArgs == mask_count > 0 /\ steps_per_block > 0
             /\ block_length > 0

\* 0-based positions of the region of the stream in flight
RegionPositions == mask_start..(mask_end - 1)

\* C1: for mask_count, steps_per_block, block_length > 0 and any predictor
\* output, a completed stream leaves no region position holding the mask
\* token.  (Stated as claimed; the code violates it.)
C1_NoMaskAtCompletion ==
    (Completed /\ ValidArgs) =>
        \A i \in RegionPositions : At(seq, i) # MASK_TOKEN_ID

\* C2: when the stream has completed, total_steps = num_blocks *
\* steps_per_block, and the number of records is total_steps, plus one
\* exactly when a region position was still masked after the last scheduled
\* step.
StepRecords == {k \in 1..Len(records) : RecKind(records[k]) = "step"}

\* Read off the stream: the text of the last scheduled-step record is
\* shorter than the region (decode drops mask tokens), or no step was
\* scheduled and the region is not empty.
MaskedAfterLastStep ==
    IF StepRecords = {}
    THEN mask_count > 0
    ELSE Len(RecText(records[Cardinality(StepRecords)])) < mask_count

C2_RecordCount ==
    Completed =>
        /\ total_steps = num_blocks * steps_per_block
        /\ Cardinality(StepRecords) = total_steps
        /\ Len(records) = total_steps
                          + (IF MaskedAfterLastStep THEN 1 ELSE 0)
        /\ MaskedAfterLastStep <=> remaining_mask_positions # {}

C2_Witness ==
    /\ Completed /\ total_steps >= 2
    /\ Len(records) = total_steps + 1
    /\ remaining_mask_positions # {}

\* C3: the first record has current_step = 1, every later scheduled-step
\* record is one above the record before it, and the terminal record
\* carries total_steps, the value of the last scheduled-step record.
\* (Stated as claimed; the code violates it.)
C3_StepNumbering ==
    /\ records # << >> => RecStep(records[1]) = 1
    /\ \A k \in 2..Len(records) :
          IF RecKind(records[k]) = "step"
          THEN RecStep(records[k]) = RecStep(records[k - 1]) + 1
          ELSE /\ RecStep(records[k]) = RecTotal(records[k])
               /\ RecStep(records[k]) = RecStep(records[k - 1])

\* C4 as claimed: current_step is strictly increasing over all the records
\* of a stream, the terminal record included.
C4_StrictlyIncreasing ==
    \A j, k \in 1..Len(records) :
        j < k => RecStep(records[j]) < RecStep(records[k])

\* C4, amended: current_step strictly increases from each record to a
\* following scheduled-step record, and the terminal force-unmask record
\* repeats the current_step of the record before it.
C4_IncreasingUntilTerminal ==
    \A k \in 2..Len(records) :
        IF RecKind(records[k]) = "step"
        THEN RecStep(records[k]) > RecStep(records[k - 1])
        ELSE RecStep(records[k]) = RecStep(records[k - 1])

C4_Witness ==
    /\ Len(records) >= 3
    /\ RecKind(records[Len(records)]) = "final"
    /\ RecStep(records[Len(records)])
         = RecStep(records[Len(records) - 1])

\* C5: within a call, a region position that holds a token other than the
\* mask token keeps that token through every later step and through the
\* force-unmask pass.
C5_NoRegression ==
    [][\A i \in RegionPositions :
          (i < Len(seq) /\ At(seq, i) # MASK_TOKEN_ID)
              => (i < Len(seq') /\ At(seq', i) = At(seq, i))]_vars

C5_Witness ==
    /\ pc = "yield_final"
    /\ Len(records) >= 3
    /\ RecText(records[1]) # << >>
    /\ Len(RecText(records[Len(records) - 1])) < mask_count

\* The sequence as built by infill before its first step.
InputIds ==
    Encode(prefix) \o MaskIds(mask_count) \o Encode(suffix)

\* C6: the sequence keeps the length len(prefix) + mask_count + len(suffix),
\* prefix and suffix positions are never written, and a denoising step of
\* block [block_start, block_end) leaves every position outside it unchanged.
C6_Frame ==
    [][(pc' \in {"yield_step", "yield_final", "done", "failed"}
        /\ seq' # << >>) =>
          LET before == IF pc = "created" THEN InputIds ELSE seq
              lo == Len(Encode(prefix))
                    + block_idx' * block_length
              hi == IF lo + block_length
                       < Len(Encode(prefix)) + mask_count
                    THEN lo + block_length
                    ELSE Len(Encode(prefix)) + mask_count
          IN  /\ Len(seq') = Len(Encode(prefix)) + mask_count
                             + Len(Encode(suffix))
              /\ Slice(seq', 0, Len(Encode(prefix))) = Encode(prefix)
              /\ Slice(seq', Len(Encode(prefix)) + mask_count,
                       Len(seq')) = Encode(suffix)
              /\ current_step' = current_step + 1 =>
                    \A i \in 0..(Len(seq') - 1) :
                        (i < lo \/ i >= hi) => At(seq', i) = At(before, i)]_vars

C6_Witness ==
    /\ pc = "yield_step" /\ block_idx = 1 /\ block_length = 2
    /\ mask_count = 3
    /\ At(seq, mask_start) = MASK_TOKEN_ID
    /\ At(seq, mask_start + 2) # MASK_TOKEN_ID

\* ceil(a / b) for a >= 0, b > 0
CeilDiv(a, b) == CHOOSE n \in 0..a : n * b >= a /\ (n - 1) * b < a

\* C7: for mask_count > 0 and block_length > 0 the blocks number
\* ceil(mask_count / block_length), start at mask_start, each begins where
\* the one before ends, the last ends at mask_end, and every block but the
\* last has exactly block_length positions (the last has 1..block_length).
C7_BlockPartition ==
    (pc \in {"yield_step", "yield_final", "done"}
     /\ mask_count > 0 /\ block_length > 0) =>
        LET bl == block_length
            bs(i) == BlockStart(mask_start, i, bl)
            be(i) == BlockEnd(bs(i), bl, mask_end)
        IN  /\ num_blocks = CeilDiv(mask_count, bl)
            /\ mask_end = mask_start + mask_count
            /\ bs(0) = mask_start
            /\ be(num_blocks - 1) = mask_end
            /\ \A i \in 0..(num_blocks - 2) :
                  be(i) = bs(i + 1) /\ be(i) - bs(i) = bl
            /\ be(num_blocks - 1) - bs(num_blocks - 1) \in 1..bl
            /\ (bl >= mask_count => num_blocks = 1)

C7_Witness ==
    /\ Completed /\ mask_count = 3 /\ block_length = 2
    /\ num_blocks = 2 /\ Len(records) >= 2

\* C8: a call with mask_count <= 0 or steps_per_block <= 0 fails on its
\* first pull, with no predictor query and no record.  (Stated as claimed;
\* the code violates it.)
C8_PreconditionFailure ==
    (pc \notin {"none", "created"}
     /\ (mask_count <= 0 \/ steps_per_block <= 0)) =>
        (pc = "failed" /\ queries = 0 /\ records = << >>)

\* C9: a stream whose body starts (first pull) while the engine is not
\* loaded fails with the assertion error, having made no predictor query
\* and emitted no record.
C9_UnloadedStartFails ==
    [][(pc = "created" /\ ~is_loaded /\ pulls' = pulls + 1) =>
          /\ pc' = "failed" /\ error' = "AssertionError"
          /\ queries' = 0 /\ records' = << >>]_vars

C9_Witness ==
    /\ pc = "failed" /\ error = "AssertionError"
    /\ model = None /\ tokenizer # None
    /\ pulls = 1 /\ queries = 0 /\ records = << >>

\* C10: model and tokenizer are both absent or both present, whatever
\* load_model and unload_model calls were made and however they ended.
\* (Stated as claimed; the code violates it.)
C10_BothOrNeither == (model = None) <=> (tokenizer = None)

\* C11: load_model with the identity of the loaded model changes nothing
\* in the engine, whatever the loaders would do; load_model with another
\* identity, both loads returning, ends LOADED with the new identity; and
\* unload_model on an engine that is not loaded returns and leaves it not
\* loaded.
C11_LifecycleIdempotence ==
    /\ \A path \in Paths, outcome \in LoadOutcomes :
          (model # None /\ model_path = path) =>
              /\ ENABLED load_model(path, outcome)
              /\ ~ENABLED (load_model(path, outcome) /\ engine' # engine)
    /\ \A path \in Paths :
          ~(model # None /\ model_path = path) =>
              /\ ENABLED load_model(path, "ok")
              /\ ~ENABLED (load_model(path, "ok")
                           /\ ~(/\ model' = path /\ tokenizer' = path
                                /\ model_path' = path))
    /\ ~is_loaded =>
          /\ ENABLED unload_model
          /\ ~ENABLED (unload_model /\ (model' # None \/ tokenizer' # None))

C11_Witness ==
    /\ is_loaded /\ model_path = "B" /\ pc = "yield_step"
    /\ ENABLED (load_model("A", "ok") /\ model' = "A" /\ model_path' = "A")
    /\ ENABLED (load_model("B", "model_raises") /\ engine' = engine)

\* C12: the stream is lazy.  Every predictor query is made inside a pull
\* and a pull makes at most one, so the queries never outnumber the pulls;
\* a step that is not a pull (the caller does something else, or nothing)
\* makes no query, writes no position of the sequence and emits no record.
C12_Lazy ==
    /\ [](queries <= pulls)
    /\ [][/\ queries' \in {queries, queries + 1}
          /\ queries' # queries => pulls' = pulls + 1
          /\ pulls' = pulls =>
                (pc # "none" =>
                    (seq' = seq /\ records' = records /\ pc' = pc))]_vars

C12_Witness ==
    /\ pc = "yield_step" /\ pulls = 2 /\ queries = 2
    /\ Len(records) = 2 /\ ~is_loaded

\* The blocks a step of the suspended stream can act on next.
NextBlocks == {idx \in {block_idx, block_idx + 1} : idx < num_blocks}

C14_PredictorFailureIsFatal ==
    [][/\ (error # "PredictorError" /\ error' = "PredictorError") =>
             /\ pulls' = pulls + 1 /\ pc' = "failed"
             /\ queries' = queries + 1 /\ records' = records
       /\ error = "PredictorError" =>
             /\ pc = "failed" /\ pc' = "failed" /\ error' = error
             /\ queries' = queries /\ records' = records
             /\ seq' = seq]_vars

C14_Witness ==
    /\ pc = "failed" /\ error = "PredictorError"
    /\ Len(records) = 1 /\ queries = 2 /\ pulls = 4

\* C15: the pull that emits the step record with current_step = k runs its
\* step on block ceil(k / steps_per_block) - 1 and writes nowhere else; k
\* is one above the step before; the block index never decreases and moves
\* on by one exactly when steps_per_block steps were spent on the block,
\* masked positions left in it or not.
C15_BlockOrder ==
    [][(pulls' = pulls + 1 /\ pc' = "yield_step") =>
          LET k  == current_step'
              b  == CeilDiv(k, steps_per_block) - 1
              lo == Len(Encode(prefix)) + b * block_length
              hi == IF lo + block_length < Len(Encode(prefix)) + mask_count
                    THEN lo + block_length
                    ELSE Len(Encode(prefix)) + mask_count
              before == IF pc = "created" THEN InputIds ELSE seq
          IN  /\ k = current_step + 1
              /\ block_idx' = b
              /\ block_idx' \in {block_idx, block_idx + 1}
              /\ block_idx' = block_idx + 1
                    <=> (pc = "yield_step"
                         /\ current_step % steps_per_block = 0)
              /\ \A i \in 0..(Len(seq') - 1) :
                    At(seq', i) # At(before, i) => (lo <= i /\ i < hi)]_vars

C15_Witness ==
    /\ pc = "yield_step" /\ steps_per_block = 2 /\ block_length = 1
    /\ block_idx = 1 /\ current_step = 4
    /\ At(seq, mask_start) = MASK_TOKEN_ID
    /\ At(seq, mask_start + 1) # MASK_TOKEN_ID

C17_ThresholdAboveAll ==
    dynamic_threshold > Units =>
        /\ \A k \in StepRecords : RecText(records[k]) = << >>
        /\ Completed =>
              /\ Len(records) = total_steps + 1
              /\ RecKind(records[Len(records)]) = "final"
              /\ \A i \in RegionPositions : At(seq, i) # MASK_TOKEN_ID

RegionResolved(s) ==
    \A i \in RegionPositions : At(s, i) # MASK_TOKEN_ID

C19_OneQueryPerStep ==
    /\ [](Completed => queries = Len(records))
    /\ [][(pulls' = pulls + 1 /\ pc' = "yield_step") =>
             /\ queries' = queries + 1
             /\ current_step' = current_step + 1
             /\ Len(records') = Len(records) + 1
             /\ RecStep(records'[Len(records')]) = current_step'
             /\ RecKind(records'[Len(records')]) = "step"]_vars

\* The second step ran on block 0 after the first had resolved it, and the
\* third on block 1 without reaching the threshold.
C19_Witness ==
    /\ pc = "yield_step" /\ steps_per_block = 2 /\ block_length = 1
    /\ mask_count = 2 /\ Len(records) = 3 /\ queries = 3
    /\ current_step = 3
    /\ Len(RecText(records[1])) = 1
    /\ RecText(records[2]) = RecText(records[1])
    /\ RecText(records[3]) = RecText(records[1])
    /\ At(seq, mask_start + 1) = MASK_TOKEN_ID

\* C20: load_model, unload_model and the caller's pulls interleaved in any
\* order, a pull made while the engine is not loaded (model or tokenizer
\* absent) runs no denoising step and no force-unmask pass: it makes no
\* predictor query, writes no position, advances no step counter and emits
\* no record; the stream has ended or ends on that pull, at its first pull
\* by the assertion.
C20_NoStepWhileUnloaded ==
    [][(pulls' = pulls + 1 /\ ~is_loaded) =>
          /\ queries' = queries
          /\ seq' = seq
          /\ current_step' = current_step
          /\ records' = records
          /\ pc' \in {"failed", "done"}
          /\ pc = "created" => error' = "AssertionError"
          /\ (pc = "yield_step" /\ pc' = "failed") => error' = "TypeError"
          /\ (pc = "yield_step" /\ pc' = "done") => RegionResolved(seq)]_vars

\* The engine was unloaded between two pulls of a stream in flight.
C20_Witness ==
    /\ pc = "failed" /\ error = "TypeError" /\ ~is_loaded
    /\ Len(records) = 2 /\ queries = 2 /\ pulls = 3
    /\ ~RegionResolved(seq)

====
